---- MODULE Spec2Model ----
(***************************************************************************)
(* Model of src/app.py: the Streamlit crime dashboard.                     *)
(*                                                                         *)
(* The script runs top to bottom on every interaction.  load_data is       *)
(* memoized by st.cache_data; the sidebar builds a boolean mask from the   *)
(* widget values; an empty filtered frame stops the script with st.error;  *)
(* otherwise KPIs (modes), the bar chart counts and the trend series are   *)
(* computed.  Strings are sequences of character codes so that the string  *)
(* comparisons of the mask are computed as Python computes them.           *)
(***************************************************************************)
EXTENDS Integers, Sequences, FiniteSets, TLC

(***************************************************************************)
(* Bounds of the model.                                                    *)
(***************************************************************************)
MaxRows == 2        \* longest CSV body explored by SpecFilter
MaxSnap == 2        \* longest CSV body explored by Spec (prefixes of Feed)
MaxRuns == 2        \* script runs per process
MaxLoads == 2       \* executions of the body of load_data per process

(***************************************************************************)
(* Text: Python str values as sequences of character codes.                *)
(***************************************************************************)
\* Python's ord() on the characters the model uses
Ord(ch) ==
    CASE ch = " " -> 32
      [] ch = "-" -> 45
      [] ch = "/" -> 47
      [] ch = "0" -> 48
      [] ch = ":" -> 58
      [] ch = "A" -> 65
      [] ch = "N" -> 78

Dash == Ord("-")

Space == Ord(" ")

Colon == Ord(":")

Zero == Ord("0")

IsDigit(c) == c >= Zero /\ c <= Zero + 9

Digits2(n) == << Zero + ((n \div 10) % 10), Zero + (n % 10) >>

Digits4(n) == Digits2(n \div 100) \o Digits2(n % 100)

\* str(datetime.date): ISO format YYYY-MM-DD, zero padded
\* (the str() calls of the mask and the astype(str) of the day column)
str(d) == Digits4(d.year) \o <<Dash>> \o Digits2(d.month) \o <<Dash>> \o Digits2(d.day)

\* the text of a timestamp as it stands in the date column of the CSV file
IsoText(ts) ==
    str(ts) \o <<Space>> \o Digits2(ts.hour) \o <<Colon>> \o Digits2(ts.minute)

\* Python's < on str: lexicographic by code point, a proper prefix is smaller
RECURSIVE StrLt(_, _)
StrLt(a, b) ==
    IF b = <<>> THEN FALSE
    ELSE IF a = <<>> THEN TRUE
    ELSE IF Head(a) # Head(b) THEN Head(a) < Head(b)
    ELSE StrLt(Tail(a), Tail(b))

StrLe(a, b) == a = b \/ StrLt(a, b)

StrGe(a, b) == StrLe(b, a)

(***************************************************************************)
(* Dates and timestamps.                                                   *)
(***************************************************************************)
Date(y, m, d) == [year |-> y, month |-> m, day |-> d]

Stamp(y, m, d, h, mi) == [year |-> y, month |-> m, day |-> d, hour |-> h, minute |-> mi]

\* Timestamp.date() / Series.dt.date
DateOf(ts) == Date(ts.year, ts.month, ts.day)

\* datetime.date ordering
DateLe(a, b) ==
    \/ a.year < b.year
    \/ a.year = b.year /\ a.month < b.month
    \/ a.year = b.year /\ a.month = b.month /\ a.day <= b.day

\* Timestamp ordering (the sort of groupby and of min/max)
StampLt(a, b) ==
    \/ DateOf(a) # DateOf(b) /\ DateLe(DateOf(a), DateOf(b))
    \/ DateOf(a) = DateOf(b) /\ a.hour < b.hour
    \/ DateOf(a) = DateOf(b) /\ a.hour = b.hour /\ a.minute < b.minute

NoStamp == Stamp(0, 0, 0, 0, 0)

Num(c) == c - Zero

\* pd.to_datetime on one cell of the form "YYYY-MM-DD HH:MM"
WellFormed(t) ==
    /\ Len(t) = 16
    /\ \A i \in {1, 2, 3, 4, 6, 7, 9, 10, 12, 13, 15, 16} : IsDigit(t[i])
    /\ t[5] = Dash /\ t[8] = Dash /\ t[11] = Space /\ t[14] = Colon
    /\ 10 * Num(t[6]) + Num(t[7]) \in 1..12
    /\ 10 * Num(t[9]) + Num(t[10]) \in 1..31
    /\ 10 * Num(t[12]) + Num(t[13]) \in 0..23
    /\ 10 * Num(t[15]) + Num(t[16]) \in 0..59

to_datetime(t) ==
    IF WellFormed(t)
    THEN Stamp(1000 * Num(t[1]) + 100 * Num(t[2]) + 10 * Num(t[3]) + Num(t[4]),
               10 * Num(t[6]) + Num(t[7]),
               10 * Num(t[9]) + Num(t[10]),
               10 * Num(t[12]) + Num(t[13]),
               10 * Num(t[15]) + Num(t[16]))
    ELSE NoStamp

(***************************************************************************)
(* The data the CSV files can hold.                                        *)
(***************************************************************************)
RawRow(ts, z, c) == [date |-> IsoText(ts), zone |-> z, crime_type |-> c]

\* a cell pd.to_datetime cannot parse: "N/A"
BadText == <<Ord("N"), Ord("/"), Ord("A")>>

SampleRows ==
    { RawRow(Stamp(2023, 12, 31, 23, 0), "A", "theft"),
      RawRow(Stamp(2024, 1, 1, 9, 0), "A", "theft"),
      RawRow(Stamp(2024, 1, 1, 17, 30), "B", "theft"),
      RawRow(Stamp(2024, 1, 2, 9, 0), "A", "assault") }

\* the calendar days the date picker can offer
Calendar == { Date(2023, 12, 31), Date(2024, 1, 1), Date(2024, 1, 2) }

\* order of the str values of the zone and crime_type columns
StrRank(s) ==
    CASE s = "A" -> 1
      [] s = "B" -> 2
      [] s = "assault" -> 3
      [] s = "theft" -> 4
      [] OTHER -> 0

SeqsUpTo(S, n) == UNION { [1..k -> S] : k \in 0..n }

\* the rows of a feed that grows by one incident at a time
FeedRow(i) ==
    CASE (i % 4) = 1 -> RawRow(Stamp(2024, 1, 1, 9, 0), "A", "theft")
      [] (i % 4) = 2 -> RawRow(Stamp(2024, 1, 1, 17, 30), "B", "theft")
      [] (i % 4) = 3 -> RawRow(Stamp(2023, 12, 31, 23, 0), "A", "theft")
      [] OTHER -> RawRow(Stamp(2024, 1, 2, 9, 0), "A", "assault")

Feed(n) == [i \in 1..n |-> FeedRow(i)]

(***************************************************************************)
(* Files.                                                                  *)
(***************************************************************************)
Missing == [kind |-> "missing", rows |-> <<>>]

\* a file pd.read_csv cannot read (zero bytes: EmptyDataError)
Unreadable == [kind |-> "unreadable", rows |-> <<>>]

Csv(rows) == [kind |-> "csv", rows |-> rows]

\* a CSV whose date column holds a cell that is no date
BadCsv == Csv(<<[date |-> BadText, zone |-> "A", crime_type |-> "theft"]>>)

\* files of the lifecycle specification
SnapFiles ==
    { Missing, Unreadable, Csv(<<>>), BadCsv } \cup { Csv(Feed(n)) : n \in 1..MaxSnap }

\* files of the filter specification
WideFiles == { Csv(rows) : rows \in SeqsUpTo(SampleRows, MaxRows) }

(***************************************************************************)
(* DataFrames.                                                             *)
(***************************************************************************)
\* pd.DataFrame()
EmptyFrame == [columns |-> {}, rows |-> <<>>]

\* DataFrame.empty
Empty(frame) == frame.columns = {} \/ frame.rows = <<>>

CsvColumns == {"date", "zone", "crime_type", "latitude", "longitude"}

\* the outcome of a step of load_data: the exception raised ("none" when it
\* returned), the frame, and the paths pd.read_csv was called with
Result(e, frame, paths) == [exc |-> e, frame |-> frame, paths |-> paths]

(***************************************************************************)
(* load_data.                                                              *)
(***************************************************************************)
PrimaryPath == "crime_data.csv"

FallbackPath == "crime-dashboard/crime_data.csv"

\* pd.read_csv
read_csv(path, file) ==
    CASE file.kind = "missing" -> Result("FileNotFoundError", EmptyFrame, <<path>>)
      [] file.kind = "unreadable" -> Result("EmptyDataError", EmptyFrame, <<path>>)
      [] OTHER -> Result("none", [columns |-> CsvColumns, rows |-> file.rows], <<path>>)

\* variant: the subfolder is never tried
ReadLocalOnly(p, f) == read_csv(PrimaryPath, p)

\* the inner try: the primary path, the fallback on FileNotFoundError only
ReadLocalThenSubfolder(p, f) ==
    IF p.kind = "missing"
    THEN [read_csv(FallbackPath, f) EXCEPT !.paths = <<PrimaryPath, FallbackPath>>]
    ELSE read_csv(PrimaryPath, p)

\* the derived columns of one row
Processed(raw) ==
    LET ts == to_datetime(raw.date)
    IN  [date |-> ts, hour |-> ts.hour, day |-> str(DateOf(ts)),
         zone |-> raw.zone, crime_type |-> raw.crime_type]

\* the "Processing" block: to_datetime raises on a cell it cannot parse
Processing(r) ==
    IF \E i \in 1..Len(r.frame.rows) : ~WellFormed(r.frame.rows[i].date)
    THEN Result("ValueError", EmptyFrame, r.paths)
    ELSE Result("none",
                [columns |-> r.frame.columns \cup {"hour", "day"},
                 rows |-> [i \in 1..Len(r.frame.rows) |-> Processed(r.frame.rows[i])]],
                r.paths)

\* the body of the outer try
LoadBody(p, f) ==
    LET r == ReadLocalThenSubfolder(p, f)
    IN  IF r.exc # "none" THEN r ELSE Processing(r)

\* what the except clause does with an exception of the body
Handled(body) ==
    [frame |-> EmptyFrame, raised |-> "none", caught |-> body.exc, paths |-> body.paths]

\* load_data: the frame returned, the exception raised out of it, the
\* exception caught inside it, the paths read
load_data(p, f) ==
    LET body == LoadBody(p, f)
    IN  IF body.exc # "none"
        THEN Handled(body)
        ELSE [frame |-> body.frame, raised |-> "none", caught |-> "none",
              paths |-> body.paths]

\* what an execution of load_data leaves behind besides the frame
Outcome(r) == [caught |-> r.caught, raised |-> r.raised, paths |-> r.paths]

\* whether load_data, run now, would return rows
Loadable(p, f) ==
    LET r == ReadLocalThenSubfolder(p, f)
    IN  /\ r.exc = "none"
        /\ r.frame.rows # <<>>
        /\ \A i \in 1..Len(r.frame.rows) : WellFormed(r.frame.rows[i].date)

\* variant: every call executes the body again
CacheMiss(c) == FALSE

\* st.cache_data: a stored return value is reused
CacheHit(c) == c.set

\* variant: only a frame with data is stored
StoreIfData(frame) == [set |-> ~Empty(frame), value |-> frame]

\* st.cache_data: the return value is stored
Store(frame) == [set |-> TRUE, value |-> frame]

(***************************************************************************)
(* Sidebar controls.                                                       *)
(***************************************************************************)
Column(frame, name) == { frame.rows[i][name] : i \in 1..Len(frame.rows) }

\* df['date'].min().date() and df['date'].max().date()
min_date(frame) ==
    DateOf(CHOOSE t \in Column(frame, "date") :
               \A u \in Column(frame, "date") : u = t \/ StampLt(t, u))

max_date(frame) ==
    DateOf(CHOOSE t \in Column(frame, "date") :
               \A u \in Column(frame, "date") : u = t \/ StampLt(u, t))

\* the value st.date_input returns: a tuple of 0, 1 or 2 dates for a range
\* input, a bare date otherwise
Tuple(items) == [tuple |-> TRUE, items |-> items]

Bare(d) == [tuple |-> FALSE, items |-> <<d>>]

\* the days st.date_input lets the operator pick: min_value <= d <= max_value
Pickable(frame) ==
    { d \in Calendar : DateLe(min_date(frame), d) /\ DateLe(d, max_date(frame)) }

DateInputs(frame) ==
    {Tuple(<<>>)}
        \cup { Tuple(<<d>>) : d \in Pickable(frame) }
        \cup { Tuple(<<p[1], p[2]>>) :
                 p \in { q \in Pickable(frame) \X Pickable(frame) : DateLe(q[1], q[2]) } }

\* what the three widgets can return for a frame
WidgetValues(frame) ==
    IF Empty(frame)
    THEN { [dates |-> Tuple(<<>>), zones |-> {}, crimes |-> {}] }
    ELSE { [dates |-> d, zones |-> z, crimes |-> c] :
             d \in DateInputs(frame),
             z \in SUBSET Column(frame, "zone"),
             c \in SUBSET Column(frame, "crime_type") }

\* the defaults of the three widgets
Defaults(frame) ==
    IF Empty(frame)
    THEN [dates |-> Tuple(<<>>), zones |-> {}, crimes |-> {}]
    ELSE [dates |-> Tuple(<<min_date(frame), max_date(frame)>>),
          zones |-> Column(frame, "zone"),
          crimes |-> Column(frame, "crime_type")]

\* variant: the end of the range is not compared
DateMaskLowerOnly(day, dts) ==
    IF dts.tuple
    THEN IF Len(dts.items) = 2
         THEN StrGe(day, str(dts.items[1]))
         ELSE IF Len(dts.items) = 1
              THEN day = str(dts.items[1])
              ELSE TRUE
    ELSE day = str(dts.items[1])

\* variant: an empty tuple of dates matches no row
DateMaskNoDates(day, dts) ==
    IF dts.tuple
    THEN IF Len(dts.items) = 2
         THEN StrGe(day, str(dts.items[1])) /\ StrLe(day, str(dts.items[2]))
         ELSE IF Len(dts.items) = 1
              THEN day = str(dts.items[1])
              ELSE FALSE
    ELSE day = str(dts.items[1])

\* the date part of the mask, for one row's day
DateMask(day, dts) ==
    IF dts.tuple
    THEN IF Len(dts.items) = 2
         THEN StrGe(day, str(dts.items[1])) /\ StrLe(day, str(dts.items[2]))
         ELSE IF Len(dts.items) = 1
              THEN day = str(dts.items[1])
              ELSE TRUE
    ELSE day = str(dts.items[1])

\* variant: the zone and crime masks are combined with |
MaskAnyCategory(row, w) ==
    /\ DateMask(row.day, w.dates)
    /\ row.zone \in w.zones \/ row.crime_type \in w.crimes

\* mask &= zone.isin(zones); mask &= crime_type.isin(crimes)
Mask(row, w) ==
    /\ DateMask(row.day, w.dates)
    /\ row.zone \in w.zones
    /\ row.crime_type \in w.crimes

\* df.loc[mask], or pd.DataFrame() when df is empty
Filtered(frame, w) ==
    IF ~Empty(frame)
    THEN [columns |-> frame.columns,
          rows |-> SelectSeq(frame.rows, LAMBDA r : Mask(r, w))]
    ELSE EmptyFrame

(***************************************************************************)
(* KPIs and charts.                                                        *)
(***************************************************************************)
Occurrences(frame, name, v) ==
    Len(SelectSeq(frame.rows, LAMBDA r : r[name] = v))

\* Series.mode(): the values of the highest frequency
mode(frame, name) ==
    { v \in Column(frame, name) :
        \A u \in Column(frame, name) :
            Occurrences(frame, name, u) <= Occurrences(frame, name, v) }

\* mode()[0] on str values: the first of the sorted modal values
FirstStr(vals) == CHOOSE v \in vals : \A u \in vals : StrRank(v) <= StrRank(u)

\* mode()[0] on int values
FirstInt(vals) == CHOOSE v \in vals : \A u \in vals : v <= u

\* f"{h}:00"
HourText(h) ==
    (IF h < 10 THEN <<Zero + h>> ELSE Digits2(h)) \o <<Colon, Zero, Zero>>

NoKpi == [total |-> 0, risk_zone |-> "", primary_code |-> "", peak_h |-> <<>>]

Kpis(frame) ==
    [total |-> Len(frame.rows),
     risk_zone |-> FirstStr(mode(frame, "zone")),
     primary_code |-> FirstStr(mode(frame, "crime_type")),
     peak_h |-> HourText(FirstInt(mode(frame, "hour")))]

\* value_counts() of crime_type, as (Type, Count) pairs
Counts(frame) ==
    { [Type |-> c, Count |-> Occurrences(frame, "crime_type", c)] :
        c \in Column(frame, "crime_type") }

RECURSIVE SortStamps(_)
SortStamps(S) ==
    IF S = {} THEN <<>>
    ELSE LET t == CHOOSE x \in S : \A y \in S : y = x \/ StampLt(x, y)
         IN  <<t>> \o SortStamps(S \ {t})

\* the key of the trend's groupby
TrendKey(row) == row.date

\* filtered_df.groupby('date').size().reset_index(name='Count')
Trend(frame) ==
    LET keys == SortStamps({ TrendKey(frame.rows[i]) : i \in 1..Len(frame.rows) })
    IN  [k \in 1..Len(keys) |->
            [date |-> keys[k],
             Count |-> Len(SelectSeq(frame.rows, LAMBDA r : TrendKey(r) = keys[k]))]]

(***************************************************************************)
(* The script from the header down.                                        *)
(***************************************************************************)
OfflineMessage == "SYSTEM OFFLINE: NO DATA FOUND. CHECK CONNECTION."

\* variant: only a frame without columns stops the script
StopsOnNoColumns(frame) == frame.columns = {}

\* if filtered_df.empty: st.error(...); st.stop()
Stops(frame) == Empty(frame)

Offline ==
    [screen |-> <<"header", OfflineMessage>>, kpi |-> NoKpi, counts |-> {},
     trend |-> <<>>, error |-> "none"]

\* mode()[0] of a column without values
Crashed ==
    [screen |-> <<"header">>, kpi |-> NoKpi, counts |-> {},
     trend |-> <<>>, error |-> "KeyError"]

\* before the first run nothing is shown
Blank == [screen |-> <<>>, kpi |-> NoKpi, counts |-> {}, trend |-> <<>>, error |-> "none"]

Dashboard(frame) ==
    [screen |-> <<"header", "kpi", "map", "bar", "trend", "log">>,
     kpi |-> Kpis(frame), counts |-> Counts(frame),
     trend |-> Trend(frame), error |-> "none"]

Present(frame) ==
    IF Stops(frame) THEN Offline
    ELSE IF mode(frame, "zone") = {} THEN Crashed
    ELSE Dashboard(frame)

(***************************************************************************)
(* State.                                                                  *)
(***************************************************************************)
VARIABLES
    primary,        \* the file at crime_data.csv
    fallback,       \* the file at crime-dashboard/crime_data.csv
    cache,          \* the st.cache_data entry of load_data
    loads,          \* the executions of the body of load_data
    readable,       \* whether the files were loadable at the last run
    runs,           \* runs of the script
    df,             \* df of the last run
    widgets,        \* dates, zones and crimes of the last run
    controls,       \* whether the sidebar showed the three widgets
    filtered_df,    \* filtered_df of the last run
    page            \* what the last run showed: screen, kpi, counts, trend, error

vars == << primary, fallback, cache, loads, readable, runs,
           df, widgets, controls, filtered_df, page >>

\* what the main area shows
screen == page.screen

\* total, risk_zone, primary_code, peak_h
kpi == page.kpi

\* the bar chart's data
counts == page.counts

\* the trend chart's data
trend == page.trend

\* the exception that ended the last run
error == page.error

NoCache == [set |-> FALSE, value |-> EmptyFrame]

Started ==
    /\ cache = NoCache
    /\ loads = <<>>
    /\ readable = FALSE
    /\ runs = 0
    /\ df = EmptyFrame
    /\ widgets = Defaults(EmptyFrame)
    /\ controls = FALSE
    /\ filtered_df = EmptyFrame
    /\ page = Blank

Init ==
    /\ primary \in SnapFiles
    /\ fallback \in SnapFiles
    /\ Started

InitFilter ==
    /\ primary \in WideFiles
    /\ fallback = Missing
    /\ Started

(***************************************************************************)
(* Actions.                                                                *)
(***************************************************************************)
\* df = load_data() under st.cache_data
Loaded == IF CacheHit(cache) THEN cache.value ELSE load_data(primary, fallback).frame

\* one run of the script with the widget values w
RunScript(w) ==
    /\ runs < MaxRuns
    /\ CacheHit(cache) \/ Len(loads) < MaxLoads
    /\ df' = Loaded
    /\ cache' = IF CacheHit(cache) THEN cache ELSE Store(df')
    /\ loads' = IF CacheHit(cache) THEN loads
                ELSE Append(loads, Outcome(load_data(primary, fallback)))
    /\ readable' = Loadable(primary, fallback)
    /\ runs' = runs + 1
    /\ widgets' = w
    /\ controls' = ~Empty(df')
    /\ filtered_df' = Filtered(df', w)
    /\ page' = Present(filtered_df')
    /\ UNCHANGED << primary, fallback >>

\* the first run of a session: every widget returns its default
FirstRun ==
    /\ runs = 0
    /\ RunScript(Defaults(Loaded))

\* a rerun after the operator changed a widget
Rerun ==
    /\ runs > 0
    /\ \E w \in WidgetValues(Loaded) : RunScript(w)

\* the files on disk change between runs
FileChange ==
    /\ \/ primary' \in SnapFiles \ {primary} /\ UNCHANGED fallback
       \/ fallback' \in SnapFiles \ {fallback} /\ UNCHANGED primary
    /\ UNCHANGED << cache, loads, readable, runs, df, widgets, controls,
                    filtered_df, page >>

Next == FirstRun \/ Rerun \/ FileChange

NextFilter == FirstRun \/ Rerun

Spec == Init /\ [][Next]_vars

SpecFilter == InitFilter /\ [][NextFilter]_vars

(***************************************************************************)
(* Properties.                                                             *)
(***************************************************************************)
Ran == runs > 0

IsPair(dts) == dts.tuple /\ Len(dts.items) = 2

\* the calendar day of a row, from its timestamp
DayOf(row) == DateOf(row.date)

Between(d, dts) == DateLe(dts.items[1], d) /\ DateLe(d, dts.items[2])

Rows(frame) == { frame.rows[i] : i \in 1..Len(frame.rows) }

OfflineScreen == <<"header", OfflineMessage>>

\* C1: with a (start, end) pair of dates, every row of the filtered view has
\* start <= day <= end in calendar order, whatever zones and crime types are
\* selected: no row of a day outside the range is in the view.
C1_RangeInclusive ==
    (Ran /\ IsPair(widgets.dates)) =>
        \A r \in Rows(filtered_df) : Between(DayOf(r), widgets.dates)

C1_Witness ==
    /\ Ran /\ IsPair(widgets.dates)
    /\ filtered_df.rows # <<>>
    /\ \E r \in Rows(df) :
          /\ ~Between(DayOf(r), widgets.dates)
          /\ r.zone \in widgets.zones
          /\ r.crime_type \in widgets.crimes

\* the date criterion of the filter, in calendar terms
DateCriterion(row, dts) ==
    CASE ~dts.tuple -> DayOf(row) = dts.items[1]
      [] dts.tuple /\ Len(dts.items) = 1 -> DayOf(row) = dts.items[1]
      [] dts.tuple /\ Len(dts.items) = 2 -> Between(DayOf(row), dts)
      [] OTHER -> TRUE

\* C2: a row of the record store is in the filtered view if and only if its
\* day matches the date criterion and its zone is selected and its crime type
\* is selected; the view holds no other rows.
C2_AllThreePredicates ==
    (Ran /\ ~Empty(df)) =>
        /\ Rows(filtered_df) \subseteq Rows(df)
        /\ \A r \in Rows(df) :
              r \in Rows(filtered_df) <=>
                  /\ DateCriterion(r, widgets.dates)
                  /\ r.zone \in widgets.zones
                  /\ r.crime_type \in widgets.crimes

C2_Witness ==
    /\ Ran
    /\ filtered_df.rows # <<>>
    /\ \E r \in Rows(df) :
          /\ DateCriterion(r, widgets.dates)
          /\ r.zone \in widgets.zones
          /\ r.crime_type \notin widgets.crimes
          /\ r \notin Rows(filtered_df)

\* C3: when neither the primary nor the fallback path exists, load_data fails
\* with an error (DataUnavailable) and no empty record set is returned and
\* memoized as if the load had succeeded.
NeitherPathExisted ==
    /\ Len(loads) > 0
    /\ loads[1].paths = <<PrimaryPath, FallbackPath>>
    /\ loads[1].caught = "FileNotFoundError"

C3_DataUnavailable ==
    NeitherPathExisted => (loads[1].raised # "none" /\ ~(cache.set /\ Empty(cache.value)))

\* C4: what the script shows when the load succeeded and the filter excludes
\* every row differs from what it shows when the load failed.
C4_DistinctStates ==
    (Ran /\ ~Empty(df) /\ Empty(filtered_df)) =>
        screen # Present(Filtered(EmptyFrame, Defaults(EmptyFrame))).screen

\* C5: whenever the filtered view is empty the run stops at the no-data
\* message: no KPI, chart or log is computed or shown and no exception ends
\* the run.
C5_EmptyViewHalts ==
    (Ran /\ Empty(filtered_df)) =>
        /\ screen = OfflineScreen
        /\ error = "none"
        /\ kpi = NoKpi /\ counts = {} /\ trend = <<>>

C5_Witness ==
    /\ Ran /\ ~Empty(df)
    /\ widgets.zones = {}
    /\ Empty(filtered_df)
    /\ screen = OfflineScreen

\* a file pd.read_csv reads and whose dates all parse
Parses(file) ==
    file.kind = "csv" /\ \A i \in 1..Len(file.rows) : WellFormed(file.rows[i].date)

\* the rows of the frame are the records of the file, in the file's order
SameRecords(frame, file) ==
    /\ Len(frame.rows) = Len(file.rows)
    /\ \A i \in 1..Len(file.rows) :
          /\ IsoText(frame.rows[i].date) = file.rows[i].date
          /\ frame.rows[i].zone = file.rows[i].zone
          /\ frame.rows[i].crime_type = file.rows[i].crime_type

\* C6: an execution of load_data reads the primary path first; with the
\* primary missing and a loadable fallback it reads the fallback next and
\* returns the fallback's records; when pd.read_csv succeeds on the primary
\* the fallback is not read, and a loadable primary's records are returned.
C6_PrimaryThenFallback ==
    [][ Len(loads') > Len(loads) =>
          /\ Head(loads'[Len(loads')].paths) = PrimaryPath
          /\ (primary.kind = "missing" /\ Parses(fallback)) =>
                /\ loads'[Len(loads')].paths = <<PrimaryPath, FallbackPath>>
                /\ loads'[Len(loads')].caught = "none"
                /\ SameRecords(df', fallback)
          /\ primary.kind = "csv" => loads'[Len(loads')].paths = <<PrimaryPath>>
          /\ Parses(primary) => SameRecords(df', primary) ]_vars

C6_Witness ==
    /\ Len(loads) = 1
    /\ loads[1].paths = <<PrimaryPath, FallbackPath>>
    /\ loads[1].caught = "none"
    /\ ~Empty(df)

RECURSIVE SumCounts(_)
SumCounts(series) ==
    IF series = <<>> THEN 0 ELSE Head(series).Count + SumCounts(Tail(series))

\* C7: for a non-empty view the trend series has exactly one entry per
\* distinct day of the view, whose count is the number of rows of that day;
\* the entries ascend chronologically and the counts sum to total.
C7_DailySeries ==
    (Ran /\ ~Empty(filtered_df)) =>
        /\ Len(trend) = Cardinality({ DayOf(r) : r \in Rows(filtered_df) })
        /\ \A r \in Rows(filtered_df) :
              \E k \in 1..Len(trend) :
                  /\ DateOf(trend[k].date) = DayOf(r)
                  /\ trend[k].Count =
                         Len(SelectSeq(filtered_df.rows, LAMBDA q : DayOf(q) = DayOf(r)))
        /\ \A k \in 1..Len(trend) - 1 : StampLt(trend[k].date, trend[k + 1].date)
        /\ SumCounts(trend) = kpi.total

\* C8: the body of load_data executes at most once per process; every run
\* after the first gets the memoized frame, the same as the run before.
C8_LoadedOnce ==
    [][ /\ Len(loads') <= 1
        /\ (Ran /\ runs' > runs) => (loads' = loads /\ df' = df) ]_vars

C8_Witness ==
    /\ runs >= 2
    /\ Len(loads) = 1
    /\ ~Empty(df)
    /\ ~readable

\* C9: with zero dates the filtered view is exactly the rows whose zone and
\* crime type are selected, in the store's order.
C9_NoDatesMatchAll ==
    (Ran /\ ~Empty(df) /\ widgets.dates = Tuple(<<>>)) =>
        filtered_df.rows =
            SelectSeq(df.rows,
                      LAMBDA r : r.zone \in widgets.zones /\ r.crime_type \in widgets.crimes)

C9_Witness ==
    /\ Ran /\ widgets.dates = Tuple(<<>>)
    /\ filtered_df.rows # <<>>
    /\ Len(filtered_df.rows) < Len(df.rows)

LoadFailed == Len(loads) > 0 /\ loads[1].caught # "none"

\* C10: once load_data has returned the empty frame from its except clause,
\* the body is not executed again: every later run gets the empty frame and
\* ends at the offline message, whatever the files have become.
C10_FailureMemoized ==
    [][ LoadFailed =>
          /\ loads' = loads
          /\ Empty(df')
          /\ runs' > runs => screen' = OfflineScreen ]_vars

C10_Witness ==
    /\ LoadFailed
    /\ runs >= 2
    /\ readable
    /\ Empty(df)
    /\ screen = OfflineScreen

====
